---- MODULE Spec2Model ----
(***************************************************************************)
(* Model of package testhelp (pkg/testhelp/panic.go): helpers that run a   *)
(* function, recover its panic and classify the panic value.               *)
(*                                                                         *)
(* Go values of type interface{} are records [type, val]: the dynamic type *)
(* and the value, written as a sequence of symbols.  A string is the       *)
(* sequence of its characters.  A unit of code under test (func()) is the  *)
(* record [panics, arg]: it returns normally, or it calls panic(arg).      *)
(***************************************************************************)
EXTENDS Integers, Sequences, FiniteSets, TLC

VARIABLES panicnil, f, cur, prev, tests, loop, again

vars == <<panicnil, f, cur, prev, tests, loop, again>>

\* Longest string used as a panic value, error text or wanted substring.
MaxStrLen == 2

\* Longest regular expression, in tokens.
MaxRELen == 2

\* Longest table of tests handed to a loop.
MaxTests == 2

\* Characters of the strings.
Alphabet == {"p", "1"}

\* Tokens of the regular expressions: a literal, the repetition operator,
\* and an opening parenthesis (never closed, so the expression is invalid).
RETokens == {"p", "*", "("}

SeqsUpTo(S, n) == UNION {[1..k -> S] : k \in 0..n}

Strings == SeqsUpTo(Alphabet, MaxStrLen)

REs == SeqsUpTo(RETokens, MaxRELen)

(***************************************************************************)
(* Go values.                                                              *)
(***************************************************************************)
NilVal == [type |-> "nil", val |-> <<>>]

StrVal(s) == [type |-> "string", val |-> s]

\* errors.New(s): a pointer; one object per text in this universe.
ErrVal(s) == [type |-> "*errors.errorString", val |-> s]

\* A caller-defined error whose Error method itself panics (for instance a
\* nil pointer of a type whose Error has a value receiver).
PanickyErr == [type |-> "panickyError", val |-> <<>>]

\* What the runtime hands to recover after panic(nil) since Go 1.21.
PanicNilError == [type |-> "*runtime.PanicNilError", val |-> <<"panic called with nil argument">>]

\* The runtime's own panics.
RuntimeError(msg) == [type |-> "runtime.Error", val |-> msg]

OpaqueVals == {[type |-> "float64", val |-> <<"27.5">>],
               [type |-> "float64", val |-> <<"27">>],
               [type |-> "int", val |-> <<"27">>]}

SliceVals == {[type |-> "[]string", val |-> <<"a", "b">>], [type |-> "[]string", val |-> <<"c", "d">>]}

\* The values a unit of code panics with, and the values a caller wants.
PanicArgs == {NilVal} \cup {StrVal(s) : s \in Strings} \cup {ErrVal(s) : s \in Strings}
             \cup {PanickyErr} \cup OpaqueVals \cup SliceVals

WantVals == PanicArgs

Funcs == {[panics |-> FALSE, arg |-> NilVal]} \cup {[panics |-> TRUE, arg |-> a] : a \in PanicArgs}

ErrorTypes == {"*errors.errorString", "panickyError", "*runtime.PanicNilError", "runtime.Error"}

\* pVal.(string) succeeds
IsString(v) == v.type = "string"

\* pVal.(error) succeeds
IsError(v) == v.type \in ErrorTypes

\* Go's == is defined on the dynamic type
Comparable(v) == v.type # "[]string"

(***************************************************************************)
(* Library functions used by the package.                                  *)
(***************************************************************************)
\* strings.Contains
Contains(s, substr) ==
    \E i \in 0..(Len(s) - Len(substr)) : SubSeq(s, i + 1, i + Len(substr)) = substr

\* regexp.Compile returns an error: an unclosed "(", or a "*" with nothing to repeat.
CompileFails(re) ==
    \/ \E i \in 1..Len(re) : re[i] = "("
    \/ \E i \in 1..Len(re) : re[i] = "*" /\ (i = 1 \/ re[i - 1] = "*")

\* err.Error() of that error
CompileError(re) == <<"error parsing regexp: ">> \o re

\* fmt.Sprintf("Regexp could not be compiled: %s", err)
RECompileMsg(re) == <<"Regexp could not be compiled", ": ">> \o CompileError(re)

\* regexp.MustCompile's own panic text
MustCompileMsg(re) == <<"regexp: Compile(">> \o re \o <<"): ">> \o CompileError(re)

\* The expression from token i on matches s from position j on.
RECURSIVE MatchAt(_, _, _, _)
MatchAt(re, i, s, j) ==
    IF i > Len(re) THEN TRUE
    ELSE IF i + 1 <= Len(re) /\ re[i + 1] = "*"
         THEN \/ MatchAt(re, i + 2, s, j)
              \/ j <= Len(s) /\ s[j] = re[i] /\ MatchAt(re, i, s, j + 1)
         ELSE j <= Len(s) /\ s[j] = re[i] /\ MatchAt(re, i + 1, s, j + 1)

\* (*Regexp).MatchString: unanchored
MatchString(re, s) == \E j \in 1..(Len(s) + 1) : MatchAt(re, 1, s, j)

\* The return value of recover() in a function deferred around g().
\* panic(nil) is recovered as nil before Go 1.21 (and under GODEBUG=panicnil=1),
\* as a *runtime.PanicNilError since.
Recover(g) ==
    IF ~g.panics THEN NilVal
    ELSE IF g.arg # NilVal THEN g.arg
    ELSE IF panicnil THEN NilVal ELSE PanicNilError

(***************************************************************************)
(* Outcome of one call of a function of the package: it returned           *)
(* (flag, content, pVal), or a panic with value esc escaped from it; execs *)
(* is the number of times the unit of code was executed.                   *)
(***************************************************************************)
Returned(flag, content, pVal, execs) ==
    [returned |-> TRUE, flag |-> flag, content |-> content, pVal |-> pVal,
     esc |-> NilVal, execs |-> execs]

Escaped(esc, execs) ==
    [returned |-> FALSE, flag |-> FALSE, content |-> FALSE, pVal |-> NilVal,
     esc |-> esc, execs |-> execs]

\* Mutant: the deferred function tests recover() == nil.
Panics_Inverted(g) == Returned(Recover(g) = NilVal, FALSE, NilVal, 1)

Panics(g) == Returned(Recover(g) # NilVal, FALSE, NilVal, 1)

\* Mutant: the negation is forgotten.
NotPanics_NoNegation(g) ==
    LET r == Panics(g) IN Returned(r.flag, FALSE, NilVal, r.execs)

NotPanics(g) ==
    LET r == Panics(g) IN Returned(~r.flag, FALSE, NilVal, r.execs)

\* Mutant: the recovered value is not stored in the named result.
PanicsGet_DropsValue(g) ==
    LET pVal == Recover(g) IN Returned(pVal # NilVal, FALSE, NilVal, 1)

PanicsGet(g) ==
    LET pVal == Recover(g) IN Returned(pVal # NilVal, FALSE, pVal, 1)

\* The text the deferred function checks: the string itself, or Error().
Text(pVal) == pVal.val

\* The panic raised by pErr.Error() when the method itself panics.
ErrorMethodPanic == RuntimeError(<<"value method called using nil pointer">>)

\* Mutant: only a string panic value is checked, an error never is.
PanicsStr_StringOnly(g, wantStr) ==
    LET pVal == Recover(g)
        didPanic == pVal # NilVal
    IN  IF IsString(pVal)
        THEN Returned(didPanic, Contains(Text(pVal), wantStr), pVal, 1)
        ELSE Returned(didPanic, FALSE, pVal, 1)

\* Mutant: didPanic is taken from the type assertions' ok.
PanicsStr_FlagFromOk(g, wantStr) ==
    LET pVal == Recover(g)
    IN  IF IsString(pVal)
        THEN Returned(TRUE, Contains(Text(pVal), wantStr), pVal, 1)
        ELSE IF ~IsError(pVal)
        THEN Returned(FALSE, FALSE, pVal, 1)
        ELSE IF pVal = PanickyErr
        THEN Escaped(ErrorMethodPanic, 1)
        ELSE Returned(TRUE, Contains(Text(pVal), wantStr), pVal, 1)

PanicsStr(g, wantStr) ==
    LET pVal == Recover(g)
        didPanic == pVal # NilVal
    IN  IF IsString(pVal)
        THEN Returned(didPanic, Contains(Text(pVal), wantStr), pVal, 1)
        ELSE IF ~IsError(pVal)
        THEN Returned(didPanic, FALSE, pVal, 1)
        ELSE IF pVal = PanickyErr
        THEN Escaped(ErrorMethodPanic, 1)
        ELSE Returned(didPanic, Contains(Text(pVal), wantStr), pVal, 1)

NotPanicsGet(g) ==
    LET r == PanicsStr(g, <<>>)
    IN  IF r.returned THEN Returned(~r.flag, FALSE, r.pVal, r.execs) ELSE r

\* Mutant: the "if ok" guard is missing, so a value without text is matched
\* as the empty string.
PanicsRE_NoOkGuard(g, wantRE) ==
    IF CompileFails(wantRE)
    THEN Escaped(StrVal(RECompileMsg(wantRE)), 0)
    ELSE LET pVal == Recover(g)
             didPanic == pVal # NilVal
         IN  IF IsString(pVal)
             THEN Returned(didPanic, MatchString(wantRE, Text(pVal)), pVal, 1)
             ELSE IF ~IsError(pVal)
             THEN Returned(didPanic, MatchString(wantRE, <<>>), pVal, 1)
             ELSE IF pVal = PanickyErr
             THEN Escaped(ErrorMethodPanic, 1)
             ELSE Returned(didPanic, MatchString(wantRE, Text(pVal)), pVal, 1)

\* Mutant: the expression is compiled inside the deferred function, after g ran.
PanicsRE_CompilesLate(g, wantRE) ==
    IF CompileFails(wantRE)
    THEN Escaped(StrVal(RECompileMsg(wantRE)), 1)
    ELSE LET pVal == Recover(g)
             didPanic == pVal # NilVal
         IN  IF IsString(pVal)
             THEN Returned(didPanic, MatchString(wantRE, Text(pVal)), pVal, 1)
             ELSE IF ~IsError(pVal)
             THEN Returned(didPanic, FALSE, pVal, 1)
             ELSE IF pVal = PanickyErr
             THEN Escaped(ErrorMethodPanic, 1)
             ELSE Returned(didPanic, MatchString(wantRE, Text(pVal)), pVal, 1)

\* Mutant: regexp.MustCompile is used, which panics with its own text.
PanicsRE_MustCompile(g, wantRE) ==
    IF CompileFails(wantRE)
    THEN Escaped(StrVal(MustCompileMsg(wantRE)), 0)
    ELSE LET pVal == Recover(g)
             didPanic == pVal # NilVal
         IN  IF IsString(pVal)
             THEN Returned(didPanic, MatchString(wantRE, Text(pVal)), pVal, 1)
             ELSE IF ~IsError(pVal)
             THEN Returned(didPanic, FALSE, pVal, 1)
             ELSE IF pVal = PanickyErr
             THEN Escaped(ErrorMethodPanic, 1)
             ELSE Returned(didPanic, MatchString(wantRE, Text(pVal)), pVal, 1)

\* Mutant: the expression is compiled only when there is a text to match, in
\* the deferred function.
PanicsRE_LazyCompile(g, wantRE) ==
    LET pVal == Recover(g)
        didPanic == pVal # NilVal
    IN  IF IsString(pVal)
        THEN IF CompileFails(wantRE) THEN Escaped(StrVal(RECompileMsg(wantRE)), 1)
             ELSE Returned(didPanic, MatchString(wantRE, Text(pVal)), pVal, 1)
        ELSE IF ~IsError(pVal)
        THEN Returned(didPanic, FALSE, pVal, 1)
        ELSE IF pVal = PanickyErr
        THEN Escaped(ErrorMethodPanic, 1)
        ELSE IF CompileFails(wantRE) THEN Escaped(StrVal(RECompileMsg(wantRE)), 1)
        ELSE Returned(didPanic, MatchString(wantRE, Text(pVal)), pVal, 1)

PanicsRE(g, wantRE) ==
    IF CompileFails(wantRE)
    THEN Escaped(StrVal(RECompileMsg(wantRE)), 0)
    ELSE LET pVal == Recover(g)
             didPanic == pVal # NilVal
         IN  IF IsString(pVal)
             THEN Returned(didPanic, MatchString(wantRE, Text(pVal)), pVal, 1)
             ELSE IF ~IsError(pVal)
             THEN Returned(didPanic, FALSE, pVal, 1)
             ELSE IF pVal = PanickyErr
             THEN Escaped(ErrorMethodPanic, 1)
             ELSE Returned(didPanic, MatchString(wantRE, Text(pVal)), pVal, 1)

\* Mutant: the values are compared by their printed form, whatever their types.
PanicsVal_ByText(g, wantVal) ==
    LET pVal == Recover(g)
        didPanic == pVal # NilVal
    IN  IF pVal.type = wantVal.type /\ ~Comparable(pVal)
        THEN Escaped(RuntimeError(<<"runtime error: comparing uncomparable type ", pVal.type>>), 1)
        ELSE Returned(didPanic, pVal.val = wantVal.val, pVal, 1)

\* Mutant: reflect.DeepEqual is used, which compares slices instead of panicking.
PanicsVal_DeepEqual(g, wantVal) ==
    LET pVal == Recover(g)
    IN  Returned(pVal # NilVal, pVal = wantVal, pVal, 1)

\* Mutant: wantVal is used as a map key, which panics on an unhashable type
\* whatever the panic value is.
PanicsVal_HashesWant(g, wantVal) ==
    LET pVal == Recover(g)
        didPanic == pVal # NilVal
    IN  IF ~Comparable(wantVal)
        THEN Escaped(RuntimeError(<<"runtime error: hash of unhashable type ", wantVal.type>>), 1)
        ELSE Returned(didPanic, pVal = wantVal, pVal, 1)

PanicsVal(g, wantVal) ==
    LET pVal == Recover(g)
        didPanic == pVal # NilVal
    IN  IF pVal.type = wantVal.type /\ ~Comparable(pVal)
        THEN Escaped(RuntimeError(<<"runtime error: comparing uncomparable type ", pVal.type>>), 1)
        ELSE Returned(didPanic, pVal = wantVal, pVal, 1)

(***************************************************************************)
(* The loops over a table of tests.  A test is [name, F, want]; want is    *)
(* WantStr, WantRE (as strings) or WantVal, and nil in a PanicTest.        *)
(* wantAll is the pointer parameter: [ptr, val], ptr FALSE for nil.        *)
(* A loop delivers the sequence of events it caused, in order: "F" for an  *)
(* execution of test i's function, "range" when the loop takes test i, and *)
(* one event per callback invocation with the arguments passed (and the    *)
(* index i of the test at hand); and whether it returned or a panic or abort *)
(* left it.  aborts tells whether the content-mismatch callback aborts     *)
(* instead of returning, as t.Fatalf does.                                 *)
(***************************************************************************)
NoOverride == [ptr |-> FALSE, val |-> NilVal]

Override(v) == [ptr |-> TRUE, val |-> v]

\* What leaves the loop when a callback calls t.Fatalf (runtime.Goexit).
FatalAbort == [type |-> "Goexit", val |-> <<>>]

Event(ev, i, name, want, pVal) == [ev |-> ev, i |-> i, name |-> name, want |-> want, pVal |-> pVal]

\* The executions of test i's function during one call.
Runs(i, test, execs) == [k \in 1..execs |-> Event("F", i, test.name, NilVal, NilVal)]

\* The body of the loop went through; or the loop is left at this test.
Continue(events) == [events |-> events, stop |-> FALSE, esc |-> NilVal]

Stop(events, esc) == [events |-> events, stop |-> TRUE, esc |-> esc]

PanicsLoopStep(test, i, wantAll, aborts) ==
    LET r == Panics(test.F)
        ran == Runs(i, test, r.execs)
    IN  IF ~r.flag
        THEN Continue(ran \o <<Event("elseFunc", i, test.name, NilVal, NilVal)>>)
        ELSE Continue(ran)

\* Mutant: the "else" is missing: valFunc is invoked for every test.
PanicsGetLoopStep_NoElse(test, i, wantAll, aborts) ==
    LET r == PanicsGet(test.F)
        ran == Runs(i, test, r.execs)
    IN  IF ~r.flag
        THEN Continue(ran \o <<Event("elseFunc", i, test.name, NilVal, NilVal),
                               Event("valFunc", i, "", NilVal, r.pVal)>>)
        ELSE Continue(ran \o <<Event("valFunc", i, "", NilVal, r.pVal)>>)

PanicsGetLoopStep(test, i, wantAll, aborts) ==
    LET r == PanicsGet(test.F)
        ran == Runs(i, test, r.execs)
    IN  IF ~r.flag
        THEN Continue(ran \o <<Event("elseFunc", i, test.name, NilVal, NilVal)>>)
        ELSE Continue(ran \o <<Event("valFunc", i, "", NilVal, r.pVal)>>)

\* Mutant: the condition is the one of PanicsLoop.
NotPanicsLoopStep_NotInverted(test, i, wantAll, aborts) ==
    LET r == Panics(test.F)
        ran == Runs(i, test, r.execs)
    IN  IF ~r.flag
        THEN Continue(ran \o <<Event("elseFunc", i, test.name, NilVal, NilVal)>>)
        ELSE Continue(ran)

NotPanicsLoopStep(test, i, wantAll, aborts) ==
    LET r == Panics(test.F)
        ran == Runs(i, test, r.execs)
    IN  IF r.flag
        THEN Continue(ran \o <<Event("elseFunc", i, test.name, NilVal, NilVal)>>)
        ELSE Continue(ran)

NotPanicsGetLoopStep(test, i, wantAll, aborts) ==
    LET r == PanicsGet(test.F)
        ran == Runs(i, test, r.execs)
    IN  IF r.flag
        THEN Continue(ran \o <<Event("elseFunc", i, test.name, NilVal, r.pVal)>>)
        ELSE Continue(ran)

\* Mutant: "if" instead of "else if": the content is checked without a panic too.
CheckedStep_NoElse(r, test, i, realWant, mismatchFunc, aborts) ==
    LET ran == Runs(i, test, r.execs)
        mismatch == Event(mismatchFunc, i, test.name, realWant, r.pVal)
        notPanic == IF ~r.flag THEN <<Event("notPanicFunc", i, test.name, NilVal, NilVal)>>
                    ELSE <<>>
    IN  IF ~r.returned THEN Stop(ran, r.esc)
        ELSE IF ~r.content
        THEN IF aborts THEN Stop(ran \o notPanic \o <<mismatch>>, FatalAbort)
             ELSE Continue(ran \o notPanic \o <<mismatch>>)
        ELSE Continue(ran \o notPanic)

\* Mutant: the callback is invoked when the content check passes.
CheckedStep_Inverted(r, test, i, realWant, mismatchFunc, aborts) ==
    LET ran == Runs(i, test, r.execs)
        mismatch == Event(mismatchFunc, i, test.name, realWant, r.pVal)
    IN  IF ~r.returned THEN Stop(ran, r.esc)
        ELSE IF ~r.flag
        THEN Continue(ran \o <<Event("notPanicFunc", i, test.name, NilVal, NilVal)>>)
        ELSE IF r.content
        THEN IF aborts THEN Stop(ran \o <<mismatch>>, FatalAbort)
             ELSE Continue(ran \o <<mismatch>>)
        ELSE Continue(ran)

\* Mutant: the loop recovers from an aborting callback and goes on.
CheckedStep_AbortCaught(r, test, i, realWant, mismatchFunc, aborts) ==
    LET ran == Runs(i, test, r.execs)
        mismatch == Event(mismatchFunc, i, test.name, realWant, r.pVal)
    IN  IF ~r.returned THEN Stop(ran, r.esc)
        ELSE IF ~r.flag
        THEN Continue(ran \o <<Event("notPanicFunc", i, test.name, NilVal, NilVal)>>)
        ELSE IF ~r.content
        THEN Continue(ran \o <<mismatch>>)
        ELSE Continue(ran)

\* The part the three checking loops share: r is the outcome of PanicsStr,
\* PanicsRE or PanicsVal on the test with the expectation realWant.
CheckedStep(r, test, i, realWant, mismatchFunc, aborts) ==
    LET ran == Runs(i, test, r.execs)
        mismatch == Event(mismatchFunc, i, test.name, realWant, r.pVal)
    IN  IF ~r.returned THEN Stop(ran, r.esc)
        ELSE IF ~r.flag
        THEN Continue(ran \o <<Event("notPanicFunc", i, test.name, NilVal, NilVal)>>)
        ELSE IF ~r.content
        THEN IF aborts THEN Stop(ran \o <<mismatch>>, FatalAbort)
             ELSE Continue(ran \o <<mismatch>>)
        ELSE Continue(ran)

\* Mutant: realWantStr outlives the call (a package-level variable): once a
\* mismatch was reported, the expectation reported last stays in place of the
\* tests' own in the calls that follow.
PanicsStrLoopStep_StaleWant(test, i, wantStrAll, aborts) ==
    LET reported == SelectSeq(loop.log, LAMBDA e : e.ev = "notContainsFunc")
        realWantStr == IF wantStrAll.ptr THEN wantStrAll.val
                       ELSE IF reported # <<>> THEN reported[Len(reported)].want
                       ELSE test.want
    IN  CheckedStep(PanicsStr(test.F, realWantStr.val), test, i, realWantStr,
                    "notContainsFunc", aborts)

\* Mutant: wantStrAll is ignored.
PanicsStrLoopStep_OwnWant(test, i, wantStrAll, aborts) ==
    CheckedStep(PanicsStr(test.F, test.want.val), test, i, test.want,
                "notContainsFunc", aborts)

PanicsStrLoopStep(test, i, wantStrAll, aborts) ==
    LET realWantStr == IF wantStrAll.ptr THEN wantStrAll.val ELSE test.want
    IN  CheckedStep(PanicsStr(test.F, realWantStr.val), test, i, realWantStr,
                    "notContainsFunc", aborts)

PanicsRELoopStep(test, i, wantREAll, aborts) ==
    LET realWantRE == IF wantREAll.ptr THEN wantREAll.val ELSE test.want
    IN  CheckedStep(PanicsRE(test.F, realWantRE.val), test, i, realWantRE,
                    "notMatchesFunc", aborts)

\* Mutant: the check uses realWantVal, the callback is given test.WantVal.
PanicsValLoopStep_PassesOwnWant(test, i, wantValAll, aborts) ==
    LET realWantVal == IF wantValAll.ptr THEN wantValAll.val ELSE test.want
    IN  CheckedStep(PanicsVal(test.F, realWantVal), test, i, test.want,
                    "notEqualsFunc", aborts)

PanicsValLoopStep(test, i, wantValAll, aborts) ==
    LET realWantVal == IF wantValAll.ptr THEN wantValAll.val ELSE test.want
    IN  CheckedStep(PanicsVal(test.F, realWantVal), test, i, realWantVal,
                    "notEqualsFunc", aborts)

LoopStep(fn, test, i, wantAll, aborts) ==
    CASE fn = "PanicsLoop" -> PanicsLoopStep(test, i, wantAll, aborts)
      [] fn = "PanicsGetLoop" -> PanicsGetLoopStep(test, i, wantAll, aborts)
      [] fn = "NotPanicsLoop" -> NotPanicsLoopStep(test, i, wantAll, aborts)
      [] fn = "NotPanicsGetLoop" -> NotPanicsGetLoopStep(test, i, wantAll, aborts)
      [] fn = "PanicsStrLoop" -> PanicsStrLoopStep(test, i, wantAll, aborts)
      [] fn = "PanicsRELoop" -> PanicsRELoopStep(test, i, wantAll, aborts)
      [] fn = "PanicsValLoop" -> PanicsValLoopStep(test, i, wantAll, aborts)

\* Mutant: the functions of all tests are run first, the callbacks are
\* invoked when the last one is through.
RECURSIVE RangeFrom_ReportsAtEnd(_, _, _, _, _)
RangeFrom_ReportsAtEnd(fn, ts, i, wantAll, aborts) ==
    IF i > Len(ts) THEN [log |-> <<>>, returned |-> TRUE, esc |-> NilVal]
    ELSE LET step == LoopStep(fn, ts[i], i, wantAll, aborts)
             taken == <<Event("range", i, ts[i].name, NilVal, NilVal)>>
         IN  IF step.stop
             THEN [log |-> taken \o step.events, returned |-> FALSE, esc |-> step.esc]
             ELSE LET rest == RangeFrom_ReportsAtEnd(fn, ts, i + 1, wantAll, aborts)
                      all == taken \o step.events \o rest.log
                  IN  [log |-> SelectSeq(all, LAMBDA e : e.ev \in {"range", "F"})
                                   \o SelectSeq(all, LAMBDA e : e.ev \notin {"range", "F"}),
                       returned |-> rest.returned, esc |-> rest.esc]

\* Mutant: the table is walked from its end.
RECURSIVE RangeFrom_Backwards(_, _, _, _, _)
RangeFrom_Backwards(fn, ts, i, wantAll, aborts) ==
    IF i > Len(ts) THEN [log |-> <<>>, returned |-> TRUE, esc |-> NilVal]
    ELSE LET at == Len(ts) + 1 - i
             step == LoopStep(fn, ts[at], at, wantAll, aborts)
             taken == <<Event("range", at, ts[at].name, NilVal, NilVal)>>
         IN  IF step.stop
             THEN [log |-> taken \o step.events, returned |-> FALSE, esc |-> step.esc]
             ELSE LET rest == RangeFrom_Backwards(fn, ts, i + 1, wantAll, aborts)
                  IN  [log |-> taken \o step.events \o rest.log, returned |-> rest.returned,
                       esc |-> rest.esc]

\* Mutant: the loop recovers from a panic of the check and goes on.
RECURSIVE RangeFrom_KeepsGoing(_, _, _, _, _)
RangeFrom_KeepsGoing(fn, ts, i, wantAll, aborts) ==
    IF i > Len(ts) THEN [log |-> <<>>, returned |-> TRUE, esc |-> NilVal]
    ELSE LET step == LoopStep(fn, ts[i], i, wantAll, aborts)
             taken == <<Event("range", i, ts[i].name, NilVal, NilVal)>>
             rest == RangeFrom_KeepsGoing(fn, ts, i + 1, wantAll, aborts)
         IN  [log |-> taken \o step.events \o rest.log,
              returned |-> ~step.stop /\ rest.returned,
              esc |-> IF step.stop THEN step.esc ELSE rest.esc]

\* for _, test := range tests, from test i on
RECURSIVE RangeFrom(_, _, _, _, _)
RangeFrom(fn, ts, i, wantAll, aborts) ==
    IF i > Len(ts) THEN [log |-> <<>>, returned |-> TRUE, esc |-> NilVal]
    ELSE LET step == LoopStep(fn, ts[i], i, wantAll, aborts)
             taken == <<Event("range", i, ts[i].name, NilVal, NilVal)>>
         IN  IF step.stop
             THEN [log |-> taken \o step.events, returned |-> FALSE, esc |-> step.esc]
             ELSE LET rest == RangeFrom(fn, ts, i + 1, wantAll, aborts)
                  IN  [log |-> taken \o step.events \o rest.log, returned |-> rest.returned,
                       esc |-> rest.esc]

PanicsLoop(ts) == RangeFrom("PanicsLoop", ts, 1, NoOverride, FALSE)

PanicsGetLoop(ts) == RangeFrom("PanicsGetLoop", ts, 1, NoOverride, FALSE)

NotPanicsLoop(ts) == RangeFrom("NotPanicsLoop", ts, 1, NoOverride, FALSE)

NotPanicsGetLoop(ts) == RangeFrom("NotPanicsGetLoop", ts, 1, NoOverride, FALSE)

PanicsStrLoop(ts, wantStrAll, aborts) == RangeFrom("PanicsStrLoop", ts, 1, wantStrAll, aborts)

\* Mutant: a shared expression is compiled once, before the loop.
PanicsRELoop_CompilesOnce(ts, wantREAll, aborts) ==
    IF wantREAll.ptr /\ CompileFails(wantREAll.val.val)
    THEN [log |-> <<>>, returned |-> FALSE, esc |-> StrVal(RECompileMsg(wantREAll.val.val))]
    ELSE RangeFrom("PanicsRELoop", ts, 1, wantREAll, aborts)

PanicsRELoop(ts, wantREAll, aborts) == RangeFrom("PanicsRELoop", ts, 1, wantREAll, aborts)

PanicsValLoop(ts, wantValAll, aborts) == RangeFrom("PanicsValLoop", ts, 1, wantValAll, aborts)

(***************************************************************************)
(* The factories of content-mismatch callbacks.  A callback made by a      *)
(* factory calls t.Errorf or t.Fatalf once; the call is the record         *)
(* [method, msg], msg being the formatted message.  A format is a sequence *)
(* of literal pieces and verbs.                                            *)
(***************************************************************************)
\* %#+v: the Go-syntax representation of a value
GoSyntax(v) ==
    CASE v.type = "nil" -> <<"<nil>">>
      [] v.type = "string" -> <<"\"">> \o v.val \o <<"\"">>
      [] v.type = "*errors.errorString" -> <<"&errors.errorString{s:", "\"">> \o v.val \o <<"\"", "}">>
      [] v.type = "*runtime.PanicNilError" -> <<"&runtime.PanicNilError{}">>
      [] v.type = "panickyError" -> <<"(*panickyError)(nil)">>
      [] v.type = "[]string" ->
             <<"[]string{">>
             \o [k \in 1..(4 * Len(v.val) - 1) |->
                    CASE k % 4 = 1 -> "\""
                      [] k % 4 = 2 -> v.val[(k + 2) \div 4]
                      [] k % 4 = 3 -> "\""
                      [] k % 4 = 0 -> ", "]
             \o <<"}">>
      [] OTHER -> v.val

\* fmt.Sprintf on a format of literal pieces, %s and %#+v
RECURSIVE Sprintf(_, _)
Sprintf(format, args) ==
    IF format = <<>> THEN <<>>
    ELSE IF Head(format) = "%s" THEN Head(args).val \o Sprintf(Tail(format), Tail(args))
    ELSE IF Head(format) = "%#+v" THEN GoSyntax(Head(args)) \o Sprintf(Tail(format), Tail(args))
    ELSE <<Head(format)>> \o Sprintf(Tail(format), args)

NotContainsFormat ==
    <<"Incorrect panic value: expected a string containing\n\"", "%s", "\"\ngot\n", "%#+v",
      "\nin test '", "%s", "'">>

NotMatchesFormat ==
    <<"Incorrect panic value: expected a string matching\n\"", "%s", "\"\ngot\n", "%#+v",
      "\nin test '", "%s", "'">>

NotEqualsFormat ==
    <<"Incorrect panic value: expected\n", "%#+v", "\ngot\n", "%#+v", "\nin test '", "%s", "'">>

\* t.Errorf(format, args...) and t.Fatalf(format, args...) as the sink sees them
Errorf(format, args) == [method |-> "Errorf", msg |-> Sprintf(format, args)]

Fatalf(format, args) == [method |-> "Fatalf", msg |-> Sprintf(format, args)]

\* The calls on t made by one invocation of the callback the factory returns.
NotContainsFuncErrorFactory(testName, wantStr, pVal) ==
    <<Errorf(NotContainsFormat, <<wantStr, pVal, StrVal(<<testName>>)>>)>>

NotContainsFuncFatalFactory(testName, wantStr, pVal) ==
    <<Fatalf(NotContainsFormat, <<wantStr, pVal, StrVal(<<testName>>)>>)>>

\* Mutant: the Error factory's callback calls t.Fatalf.
NotMatchesFuncErrorFactory_CallsFatalf(testName, wantRE, pVal) ==
    <<Fatalf(NotMatchesFormat, <<wantRE, pVal, StrVal(<<testName>>)>>)>>

NotMatchesFuncErrorFactory(testName, wantRE, pVal) ==
    <<Errorf(NotMatchesFormat, <<wantRE, pVal, StrVal(<<testName>>)>>)>>

NotMatchesFuncFatalFactory(testName, wantRE, pVal) ==
    <<Fatalf(NotMatchesFormat, <<wantRE, pVal, StrVal(<<testName>>)>>)>>

NotEqualsFuncErrorFactory(testName, wantVal, pVal) ==
    <<Errorf(NotEqualsFormat, <<wantVal, pVal, StrVal(<<testName>>)>>)>>

NotEqualsFuncFatalFactory(testName, wantVal, pVal) ==
    <<Fatalf(NotEqualsFormat, <<wantVal, pVal, StrVal(<<testName>>)>>)>>

Factories == {"Error", "Fatal"}

\* What the callback of the given factory does when the loop invokes it (event e).
Report(factory, e) ==
    CASE e.ev = "notContainsFunc" /\ factory = "Error" ->
             NotContainsFuncErrorFactory(e.name, e.want, e.pVal)
      [] e.ev = "notContainsFunc" /\ factory = "Fatal" ->
             NotContainsFuncFatalFactory(e.name, e.want, e.pVal)
      [] e.ev = "notMatchesFunc" /\ factory = "Error" ->
             NotMatchesFuncErrorFactory(e.name, e.want, e.pVal)
      [] e.ev = "notMatchesFunc" /\ factory = "Fatal" ->
             NotMatchesFuncFatalFactory(e.name, e.want, e.pVal)
      [] e.ev = "notEqualsFunc" /\ factory = "Error" ->
             NotEqualsFuncErrorFactory(e.name, e.want, e.pVal)
      [] e.ev = "notEqualsFunc" /\ factory = "Fatal" ->
             NotEqualsFuncFatalFactory(e.name, e.want, e.pVal)
      [] OTHER -> <<>>

\* The calls received by t during a loop, in order.
RECURSIVE Reports(_, _)
Reports(factory, log) ==
    IF log = <<>> THEN <<>> ELSE Report(factory, Head(log)) \o Reports(factory, Tail(log))

(***************************************************************************)
(* A test calls the functions of the package on the unit of code f, one    *)
(* call after the other.  cur is the last call (function, expectation,     *)
(* outcome) and prev what the call before it, on the same f, delivered.    *)
(***************************************************************************)
NoCall == [fn |-> "none", want |-> NilVal, out |-> Escaped(NilVal, 0)]

NoPrev == [fn |-> "none", returned |-> FALSE, flag |-> FALSE, pVal |-> NilVal]

Summary(c) == [fn |-> c.fn, returned |-> c.out.returned, flag |-> c.out.flag, pVal |-> c.out.pVal]

\* The table of tests being written (its element type and its rows), and the
\* loop that was run on it.
NoTable == [kind |-> "none", cases |-> <<>>]

NoLoop == [fn |-> "none", wantAll |-> NoOverride, aborts |-> FALSE, factory |-> "none",
           log |-> <<>>, returned |-> FALSE, esc |-> NilVal, sink |-> <<>>]

TestKinds == {"PanicTest", "PanicStrTest", "PanicRETest", "PanicValTest"}

Names == {"A", "B"}

\* The units of code put into the tables.
LoopFuncs == {[panics |-> FALSE, arg |-> NilVal],
              [panics |-> TRUE, arg |-> StrVal(<<"p">>)],
              [panics |-> TRUE, arg |-> ErrVal(<<"1">>)],
              [panics |-> TRUE, arg |-> [type |-> "[]string", val |-> <<"a", "b">>]],
              [panics |-> TRUE, arg |-> NilVal],
              [panics |-> TRUE, arg |-> PanickyErr]}

\* The expectations put into the tables and passed as wantStrAll, wantREAll, wantValAll.
LoopWants(kind) ==
    CASE kind = "PanicTest" -> {NilVal}
      [] kind = "PanicStrTest" -> {StrVal(<<"p">>), StrVal(<<"1">>)}
      [] kind = "PanicRETest" -> {StrVal(<<"p">>), StrVal(<<"(">>)}
      [] kind = "PanicValTest" -> {StrVal(<<"p">>), [type |-> "[]string", val |-> <<"a", "b">>]}

Overrides(kind) == {NoOverride} \cup {Override(w) : w \in LoopWants(kind)}

Call(fn, want, out) ==
    /\ tests = NoTable /\ loop = NoLoop
    /\ cur' = [fn |-> fn, want |-> want, out |-> out]
    /\ prev' = IF cur.fn = "none" THEN NoPrev ELSE Summary(cur)
    /\ UNCHANGED <<panicnil, f, tests, loop, again>>

Init ==
    /\ panicnil \in BOOLEAN
    /\ f \in Funcs
    /\ cur = NoCall
    /\ prev = NoPrev
    /\ tests = NoTable
    /\ loop = NoLoop
    /\ again = NoLoop

\* The test moves on to another unit of code.
NewFunc ==
    /\ cur.fn # "none"
    /\ f' \in Funcs
    /\ cur' = NoCall
    /\ prev' = NoPrev
    /\ UNCHANGED <<panicnil, tests, loop, again>>

CallPanics == Call("Panics", NilVal, Panics(f))

CallNotPanics == Call("NotPanics", NilVal, NotPanics(f))

CallPanicsGet == Call("PanicsGet", NilVal, PanicsGet(f))

CallNotPanicsGet == Call("NotPanicsGet", NilVal, NotPanicsGet(f))

CallPanicsStr == \E wantStr \in Strings : Call("PanicsStr", StrVal(wantStr), PanicsStr(f, wantStr))

CallPanicsRE == \E wantRE \in REs : Call("PanicsRE", StrVal(wantRE), PanicsRE(f, wantRE))

CallPanicsVal == \E wantVal \in WantVals : Call("PanicsVal", wantVal, PanicsVal(f, wantVal))

\* The caller's unit of code around a call of PanicsRE or PanicsVal that left
\* by a panic: func() { PanicsRE(test.f, badRE) }
Wrapped(out) == [panics |-> ~out.returned, arg |-> out.esc]

\* PanicsStr(func() { PanicsRE(f, wantRE) }, "Regexp could not be compiled")
CallPanicsStrAroundPanicsRE ==
    \E wantRE \in REs :
        Call("PanicsStr(PanicsRE)", StrVal(wantRE),
             PanicsStr(Wrapped(PanicsRE(f, wantRE)), <<"Regexp could not be compiled">>))

\* The test writes one more row of its table; f is the unit of code written last.
AddTest ==
    /\ cur = NoCall /\ loop = NoLoop
    /\ Len(tests.cases) < MaxTests
    /\ \E kind \in TestKinds, name \in Names, g \in LoopFuncs :
           /\ tests.kind \in {"none", kind}
           /\ \E want \in LoopWants(kind) :
                  tests' = [kind |-> kind,
                            cases |-> Append(tests.cases, [name |-> name, F |-> g, want |-> want])]
           /\ f' = g
    /\ UNCHANGED <<panicnil, cur, prev, loop, again>>

\* The outcome of a loop as the test sees it: the events, and the calls its
\* mismatch callback made on t.
Ran(fn, wantAll, aborts, factory, out) ==
    [fn |-> fn, wantAll |-> wantAll, aborts |-> aborts, factory |-> factory,
     log |-> out.log, returned |-> out.returned, esc |-> out.esc,
     sink |-> Reports(factory, out.log)]

RunLoop(fn, wantAll, aborts, factory, out) ==
    /\ cur = NoCall /\ loop = NoLoop
    /\ loop' = Ran(fn, wantAll, aborts, factory, out)
    /\ UNCHANGED <<panicnil, f, cur, prev, tests, again>>

CallPanicsLoop ==
    /\ tests.kind \in {"none", "PanicTest"}
    /\ RunLoop("PanicsLoop", NoOverride, FALSE, "none", PanicsLoop(tests.cases))

CallPanicsGetLoop ==
    /\ tests.kind \in {"none", "PanicTest"}
    /\ RunLoop("PanicsGetLoop", NoOverride, FALSE, "none", PanicsGetLoop(tests.cases))

CallNotPanicsLoop ==
    /\ tests.kind \in {"none", "PanicTest"}
    /\ RunLoop("NotPanicsLoop", NoOverride, FALSE, "none", NotPanicsLoop(tests.cases))

CallNotPanicsGetLoop ==
    /\ tests.kind \in {"none", "PanicTest"}
    /\ RunLoop("NotPanicsGetLoop", NoOverride, FALSE, "none", NotPanicsGetLoop(tests.cases))

CallPanicsStrLoop ==
    /\ tests.kind \in {"none", "PanicStrTest"}
    /\ \E wantStrAll \in Overrides("PanicStrTest"), factory \in Factories, aborts \in BOOLEAN :
           /\ aborts => factory = "Fatal"
           /\ RunLoop("PanicsStrLoop", wantStrAll, aborts, factory,
                      PanicsStrLoop(tests.cases, wantStrAll, aborts))

CallPanicsRELoop ==
    /\ tests.kind \in {"none", "PanicRETest"}
    /\ \E wantREAll \in Overrides("PanicRETest"), factory \in Factories, aborts \in BOOLEAN :
           /\ aborts => factory = "Fatal"
           /\ RunLoop("PanicsRELoop", wantREAll, aborts, factory,
                      PanicsRELoop(tests.cases, wantREAll, aborts))

CallPanicsValLoop ==
    /\ tests.kind \in {"none", "PanicValTest"}
    /\ \E wantValAll \in Overrides("PanicValTest"), factory \in Factories, aborts \in BOOLEAN :
           /\ aborts => factory = "Fatal"
           /\ RunLoop("PanicsValLoop", wantValAll, aborts, factory,
                      PanicsValLoop(tests.cases, wantValAll, aborts))

\* The test is over; the next one starts with an empty table.
NewTable ==
    /\ loop # NoLoop
    /\ tests' = NoTable
    /\ loop' = NoLoop
    /\ again' = NoLoop
    /\ UNCHANGED <<panicnil, f, cur, prev>>

\* The test runs the same loop on the same table once more, with the same
\* arguments and callbacks that collect afresh.
CallLoopAgain ==
    /\ loop # NoLoop /\ again = NoLoop
    /\ again' = Ran(loop.fn, loop.wantAll, loop.aborts, loop.factory,
                    CASE loop.fn = "PanicsLoop" -> PanicsLoop(tests.cases)
                      [] loop.fn = "PanicsGetLoop" -> PanicsGetLoop(tests.cases)
                      [] loop.fn = "NotPanicsLoop" -> NotPanicsLoop(tests.cases)
                      [] loop.fn = "NotPanicsGetLoop" -> NotPanicsGetLoop(tests.cases)
                      [] loop.fn = "PanicsStrLoop" ->
                             PanicsStrLoop(tests.cases, loop.wantAll, loop.aborts)
                      [] loop.fn = "PanicsRELoop" ->
                             PanicsRELoop(tests.cases, loop.wantAll, loop.aborts)
                      [] loop.fn = "PanicsValLoop" ->
                             PanicsValLoop(tests.cases, loop.wantAll, loop.aborts))
    /\ UNCHANGED <<panicnil, f, cur, prev, tests, loop>>

Next ==
    \/ NewFunc
    \/ CallPanics
    \/ CallNotPanics
    \/ CallPanicsGet
    \/ CallNotPanicsGet
    \/ CallPanicsStr
    \/ CallPanicsRE
    \/ CallPanicsVal
    \/ CallPanicsStrAroundPanicsRE
    \/ AddTest
    \/ CallPanicsLoop
    \/ CallPanicsGetLoop
    \/ CallNotPanicsLoop
    \/ CallNotPanicsGetLoop
    \/ CallPanicsStrLoop
    \/ CallPanicsRELoop
    \/ CallPanicsValLoop
    \/ CallLoopAgain
    \/ NewTable

Spec == Init /\ [][Next]_vars

(***************************************************************************)
(* Properties.                                                             *)
(***************************************************************************)
SingleCase == {"Panics", "NotPanics", "PanicsGet", "NotPanicsGet", "PanicsStr", "PanicsRE", "PanicsVal"}

\* sub occurs in s, stated on positions rather than by strings.Contains
Occurs(sub, s) == \E a \in 0..Len(s), b \in 0..Len(s) : a <= b /\ SubSeq(s, a + 1, b) = sub

\* An error value whose Error method returns its text.
HasErrorText(v) == IsError(v) /\ v # PanickyErr

\* C1 as stated: for every f that panics with payload p, PanicsGet(f) returns
\* (true, p) and Panics(f) returns true.
C1_AsStated ==
    /\ (f.panics /\ cur.fn = "PanicsGet") =>
           (cur.out.returned /\ cur.out.flag /\ cur.out.pVal = f.arg)
    /\ (f.panics /\ cur.fn = "Panics") => (cur.out.returned /\ cur.out.flag)

\* C1 amended: for every f that panics with a non-nil payload p, PanicsGet(f)
\* returns (true, p) and Panics(f) returns true.
C1_PanicsGetReturnsPayload ==
    /\ (f.panics /\ f.arg # NilVal /\ cur.fn = "PanicsGet") =>
           (cur.out.returned /\ cur.out.flag /\ cur.out.pVal = f.arg)
    /\ (f.panics /\ f.arg # NilVal /\ cur.fn = "Panics") => (cur.out.returned /\ cur.out.flag)

C1_Witness ==
    /\ f.panics /\ f.arg = ErrVal(<<"p", "1">>)
    /\ prev.fn = "Panics" /\ prev.flag
    /\ cur.fn = "PanicsGet" /\ cur.out.pVal = f.arg

\* C2: for every f that completes normally, Panics(f) returns false and
\* PanicsGet(f) returns (false, nil).
C2_NormalCompletion ==
    /\ (~f.panics /\ cur.fn = "Panics") => (cur.out.returned /\ ~cur.out.flag)
    /\ (~f.panics /\ cur.fn = "PanicsGet") =>
           (cur.out.returned /\ ~cur.out.flag /\ cur.out.pVal = NilVal)

C2_Witness ==
    /\ ~f.panics
    /\ prev.fn = "Panics" /\ prev.returned /\ ~prev.flag
    /\ cur.fn = "PanicsGet" /\ cur.out.returned

\* C3: in every result returned by PanicsGet, PanicsStr, PanicsRE and PanicsVal,
\* didPanic is true if and only if the returned pVal is non-nil.
C3_FlagIffPayload ==
    (cur.fn \in {"PanicsGet", "PanicsStr", "PanicsRE", "PanicsVal"} /\ cur.out.returned) =>
        (cur.out.flag <=> cur.out.pVal # NilVal)

\* panic(nil): the case in which the flag and the payload could part.
C3_Witness ==
    /\ f.panics /\ f.arg = NilVal
    /\ cur.fn = "PanicsStr" /\ cur.out.returned

\* C4 as stated: Panics, PanicsGet and PanicsStr return normally for every f,
\* whether it completes normally or panics with any payload.
C4_AsStated ==
    cur.fn \in {"Panics", "PanicsGet", "PanicsStr"} => cur.out.returned

\* C5 as stated: every single-case function executes f exactly once per call,
\* for every input.
C5_AsStated ==
    cur.fn \in SingleCase => cur.out.execs = 1

\* C5 amended: every single-case function executes f exactly once per call,
\* except PanicsRE with an invalid wantRE, which panics without executing f.
C5_ExecutedOnce ==
    cur.fn \in SingleCase =>
        cur.out.execs = (IF cur.fn = "PanicsRE" /\ CompileFails(cur.want.val) THEN 0 ELSE 1)

C5_Witness ==
    /\ f.panics
    /\ cur.fn = "PanicsRE" /\ cur.want.val = <<"(">>
    /\ ~cur.out.returned /\ cur.out.execs = 0

\* C6: NotPanics(f) is the negation of Panics(f), for every f.
C6_NotPanicsNegates ==
    /\ (prev.fn = "Panics" /\ cur.fn = "NotPanics") =>
           (prev.returned /\ cur.out.returned /\ cur.out.flag = ~prev.flag)
    /\ (prev.fn = "NotPanics" /\ cur.fn = "Panics") =>
           (prev.returned /\ cur.out.returned /\ cur.out.flag = ~prev.flag)

C6_Witness ==
    /\ f.panics /\ f.arg # NilVal
    /\ prev.fn = "Panics" /\ prev.flag
    /\ cur.fn = "NotPanics" /\ ~cur.out.flag

\* C7 as stated: for every f, NotPanicsGet(f) returns (not d, v) where (d, v)
\* is what PanicsGet(f) returns.
C7_AsStated ==
    (prev.fn = "PanicsGet" /\ cur.fn = "NotPanicsGet") =>
        (cur.out.returned /\ cur.out.flag = ~prev.flag /\ cur.out.pVal = prev.pVal)

C9_AsStated ==
    (/\ f.panics /\ ~IsString(f.arg) /\ ~IsError(f.arg)
     /\ cur.fn \in {"PanicsStr", "PanicsRE"}
     /\ (cur.fn = "PanicsRE" => ~CompileFails(cur.want.val))) =>
        (cur.out.returned /\ cur.out.flag /\ ~cur.out.content /\ cur.out.pVal = f.arg)

\* C9 amended: when f panics with a non-nil payload that is neither a string
\* nor an error, PanicsStr and PanicsRE (valid pattern) return
\* (true, false, payload) for every wanted substring or pattern.
C9_NoTextNoMatch ==
    (/\ f.panics /\ f.arg # NilVal /\ ~IsString(f.arg) /\ ~IsError(f.arg)
     /\ cur.fn \in {"PanicsStr", "PanicsRE"}
     /\ (cur.fn = "PanicsRE" => ~CompileFails(cur.want.val))) =>
        (cur.out.returned /\ cur.out.flag /\ ~cur.out.content /\ cur.out.pVal = f.arg)

C9_Witness ==
    /\ f.panics /\ f.arg = [type |-> "float64", val |-> <<"27.5">>]
    /\ cur.fn = "PanicsRE" /\ cur.want.val = <<>>
    /\ cur.out.returned /\ ~cur.out.content

\* C10 as stated: PanicsStr(f, "") returns pContainsStr = true and
\* PanicsRE(f, "") returns pMatchesRE = true whenever f panics with a string
\* or error payload.
C10_AsStated ==
    (/\ f.panics /\ (IsString(f.arg) \/ IsError(f.arg))
     /\ cur.fn \in {"PanicsStr", "PanicsRE"} /\ cur.want.val = <<>>) =>
        (cur.out.returned /\ cur.out.content)

\* C11: PanicsRE(f, wantRE) panics whenever wantRE is invalid, whatever f does;
\* the panic value is a string containing "Regexp could not be compiled", so
\* PanicsStr around the call observes (true, true, _).
C11_BadREPanics ==
    /\ (cur.fn = "PanicsRE" /\ CompileFails(cur.want.val)) =>
           /\ ~cur.out.returned
           /\ IsString(cur.out.esc)
           /\ Occurs(<<"Regexp could not be compiled">>, cur.out.esc.val)
    /\ (cur.fn = "PanicsStr(PanicsRE)" /\ CompileFails(cur.want.val)) =>
           (cur.out.returned /\ cur.out.flag /\ cur.out.content)

C11_Witness ==
    /\ ~f.panics
    /\ cur.fn = "PanicsStr(PanicsRE)" /\ cur.want.val = <<"*", "p">>
    /\ cur.out.flag /\ cur.out.content

\* C12 as stated: when f panics with payload p and p, wantVal are comparable,
\* PanicsVal(f, wantVal) returns (true, p == wantVal, p).
C12_AsStated ==
    (/\ f.panics /\ Comparable(f.arg) /\ Comparable(cur.want)
     /\ cur.fn = "PanicsVal") =>
        /\ cur.out.returned /\ cur.out.flag /\ cur.out.pVal = f.arg
        /\ cur.out.content = (f.arg.type = cur.want.type /\ f.arg.val = cur.want.val)

\* C12 amended: when f panics with a non-nil payload p and p, wantVal are
\* comparable, PanicsVal(f, wantVal) returns (true, p == wantVal, p), where
\* values of different dynamic types are unequal.
C12_InterfaceEquality ==
    (/\ f.panics /\ f.arg # NilVal /\ Comparable(f.arg) /\ Comparable(cur.want)
     /\ cur.fn = "PanicsVal") =>
        /\ cur.out.returned /\ cur.out.flag /\ cur.out.pVal = f.arg
        /\ cur.out.content = (f.arg.type = cur.want.type /\ f.arg.val = cur.want.val)

\* 27.0 against 27
C12_Witness ==
    /\ f.panics /\ f.arg = [type |-> "float64", val |-> <<"27">>]
    /\ cur.fn = "PanicsVal" /\ cur.want = [type |-> "int", val |-> <<"27">>]
    /\ cur.out.returned /\ ~cur.out.content

\* C13: PanicsVal(f, wantVal) panics whenever f panics with a payload of
\* wantVal's dynamic type and that type is not comparable, equal contents or not.
C13_UncomparablePanics ==
    (/\ f.panics /\ f.arg.type = cur.want.type /\ ~Comparable(f.arg)
     /\ cur.fn = "PanicsVal") =>
        /\ ~cur.out.returned
        /\ cur.out.esc.type = "runtime.Error"
        /\ Occurs(<<"runtime error: comparing uncomparable type ">>, cur.out.esc.val)

C13_Witness ==
    /\ f.panics /\ f.arg = [type |-> "[]string", val |-> <<"a", "b">>]
    /\ cur.fn = "PanicsVal" /\ cur.want = [type |-> "[]string", val |-> <<"c", "d">>]
    /\ ~cur.out.returned

(***************************************************************************)
(* Properties of the loops, read off the events of the loop that was run.  *)
(***************************************************************************)
CheckingLoops == {"PanicsStrLoop", "PanicsRELoop", "PanicsValLoop"}

MismatchFuncs == {"notContainsFunc", "notMatchesFunc", "notEqualsFunc"}

CallbackEvents == {"elseFunc", "valFunc", "notPanicFunc"} \cup MismatchFuncs

MismatchFunc(fn) ==
    CASE fn = "PanicsStrLoop" -> "notContainsFunc"
      [] fn = "PanicsRELoop" -> "notMatchesFunc"
      [] fn = "PanicsValLoop" -> "notEqualsFunc"

Rows == 1..Len(tests.cases)

\* The loop took test i; it executed test i's function.
Taken(i) == \E k \in DOMAIN loop.log : loop.log[k].ev = "range" /\ loop.log[k].i = i

Executed(i) == \E k \in DOMAIN loop.log : loop.log[k].ev = "F" /\ loop.log[k].i = i

\* The callback invocations made for test i, in order.
Callbacks(i) == SelectSeq(loop.log, LAMBDA e : e.i = i /\ e.ev \in CallbackEvents)

\* The expectation that applies to test i.
RealWant(i) == IF loop.wantAll.ptr THEN loop.wantAll.val ELSE tests.cases[i].want

\* The content check of the loop fn on payload p and expectation w gives a
\* result (no invalid expression, no panicking Error method, no uncomparable
\* pair), and the result is that p meets w.
HasResult(fn, p, w) ==
    CASE fn = "PanicsStrLoop" -> p # PanickyErr
      [] fn = "PanicsRELoop" -> p # PanickyErr /\ ~CompileFails(w.val)
      [] fn = "PanicsValLoop" -> ~(p.type = w.type /\ ~Comparable(p))

Meets(fn, p, w) ==
    CASE fn = "PanicsStrLoop" -> (IsString(p) \/ HasErrorText(p)) /\ Occurs(w.val, p.val)
      [] fn = "PanicsRELoop" -> (IsString(p) \/ HasErrorText(p)) /\ MatchString(w.val, p.val)
      [] fn = "PanicsValLoop" -> p.type = w.type /\ p.val = w.val

\* C14: in PanicsStrLoop, PanicsRELoop and PanicsValLoop, for every test whose
\* function was run and completed normally, notPanicFunc is invoked exactly
\* once with the test's name, the mismatch callback is not invoked for it,
\* and the loop goes on to the next test.
C14_NotPanicReported ==
    loop.fn \in CheckingLoops =>
        \A i \in Rows :
            (Executed(i) /\ ~tests.cases[i].F.panics) =>
                /\ Callbacks(i) = <<Event("notPanicFunc", i, tests.cases[i].name, NilVal, NilVal)>>
                /\ (i < Len(tests.cases) => Taken(i + 1))

C14_Witness ==
    /\ loop.fn = "PanicsValLoop" /\ Len(tests.cases) = 2
    /\ ~tests.cases[1].F.panics /\ ~Comparable(tests.cases[1].want)
    /\ Len(Callbacks(1)) = 1 /\ Executed(2)

\* C15 as stated: for every test whose function panics, the mismatch callback
\* is invoked exactly once with (name, expectation, payload) if the payload
\* fails the content check, and no callback is invoked if it passes.
C15_AsStated ==
    loop.fn \in CheckingLoops =>
        \A i \in Rows :
            LET t == tests.cases[i]
            IN  (Executed(i) /\ t.F.panics /\ HasResult(loop.fn, t.F.arg, RealWant(i))) =>
                    Callbacks(i) =
                        IF Meets(loop.fn, t.F.arg, RealWant(i)) THEN <<>>
                        ELSE <<Event(MismatchFunc(loop.fn), i, t.name, RealWant(i), t.F.arg)>>

\* C15 amended: the same for every test whose function panics with a non-nil
\* payload.
C15_MismatchReported ==
    loop.fn \in CheckingLoops =>
        \A i \in Rows :
            LET t == tests.cases[i]
            IN  (/\ Executed(i) /\ t.F.panics /\ t.F.arg # NilVal
                 /\ HasResult(loop.fn, t.F.arg, RealWant(i))) =>
                    Callbacks(i) =
                        IF Meets(loop.fn, t.F.arg, RealWant(i)) THEN <<>>
                        ELSE <<Event(MismatchFunc(loop.fn), i, t.name, RealWant(i), t.F.arg)>>

C15_Witness ==
    /\ loop.fn = "PanicsRELoop" /\ Len(tests.cases) = 2 /\ ~loop.wantAll.ptr
    /\ tests.cases[1].F.arg = ErrVal(<<"1">>) /\ Len(Callbacks(1)) = 1
    /\ tests.cases[2].F.arg = StrVal(<<"p">>) /\ Executed(2) /\ Callbacks(2) = <<>>

\* The tables that differ from the one at hand in the tests' own expectations only.
OtherWants ==
    {[i \in Rows |-> [name |-> tests.cases[i].name, F |-> tests.cases[i].F, want |-> w[i]]] :
        w \in [Rows -> LoopWants(tests.kind)]}

\* C16: with a non-nil wantStrAll, wantREAll or wantValAll every content check
\* uses the shared expectation and the tests' own expectations play no part
\* (the loop does the same whatever they are, and the same as on the table
\* whose tests all carry the shared expectation), while notPanicFunc is still
\* invoked test by test.
C16_SharedExpectation ==
    (loop.fn \in CheckingLoops /\ loop.wantAll.ptr /\ tests.kind # "none") =>
        /\ \A ts \in OtherWants :
               LET other == RangeFrom(loop.fn, ts, 1, loop.wantAll, loop.aborts)
               IN  other.log = loop.log /\ other.returned = loop.returned
        /\ LET shared == [i \in Rows |-> [name |-> tests.cases[i].name, F |-> tests.cases[i].F,
                                           want |-> loop.wantAll.val]]
           IN  RangeFrom(loop.fn, shared, 1, NoOverride, loop.aborts).log = loop.log
        /\ \A k \in DOMAIN loop.log :
               loop.log[k].ev \in MismatchFuncs => loop.log[k].want = loop.wantAll.val
        /\ \A i \in Rows :
               (Executed(i) /\ ~tests.cases[i].F.panics) => Len(Callbacks(i)) = 1

\* The test's own "1" would not be met, the shared "p" is; the next test does not panic.
C16_Witness ==
    /\ loop.fn = "PanicsStrLoop" /\ loop.wantAll = Override(StrVal(<<"p">>))
    /\ Len(tests.cases) = 2
    /\ tests.cases[1].F.arg = StrVal(<<"p">>) /\ tests.cases[1].want = StrVal(<<"1">>)
    /\ Callbacks(1) = <<>>
    /\ ~tests.cases[2].F.panics /\ Len(Callbacks(2)) = 1

\* C17: every loop takes the tests one at a time in slice order: the events
\* follow the order of the table, a callback is invoked at most once per test,
\* and the name it is given is the name of the test at hand, so the names
\* delivered to a callback are a subsequence of the table's names.
C17_SliceOrder ==
    loop.fn # "none" =>
        /\ \A j, k \in DOMAIN loop.log :
               j < k => /\ loop.log[j].i <= loop.log[k].i
                        /\ (loop.log[j].ev = loop.log[k].ev => loop.log[j].i < loop.log[k].i)
        /\ \A k \in DOMAIN loop.log :
               loop.log[k].ev \in CallbackEvents \ {"valFunc"} =>
                   loop.log[k].name = tests.cases[loop.log[k].i].name

\* Two tests of the same name, each reported.
C17_Witness ==
    /\ loop.fn = "PanicsLoop" /\ Len(tests.cases) = 2
    /\ tests.cases[1].name = "A" /\ tests.cases[2].name = "A"
    /\ Len(Callbacks(1)) = 1 /\ Len(Callbacks(2)) = 1

\* The check of test i, in PanicsRELoop or PanicsValLoop, panics: the
\* expression is invalid, or the payload and the wanted value are of one
\* uncomparable type.
CheckPanics(i) ==
    \/ loop.fn = "PanicsRELoop" /\ CompileFails(RealWant(i).val)
    \/ /\ loop.fn = "PanicsValLoop"
       /\ tests.cases[i].F.panics
       /\ tests.cases[i].F.arg.type = RealWant(i).type
       /\ ~Comparable(tests.cases[i].F.arg)

\* C18: when the loop takes a test whose check panics, the loop panics at that
\* test: what it did for the tests before is what it does on that shorter
\* table, no callback is invoked for the test, and no later test is taken.
C18_LoopPanicsAtTest ==
    \A i \in Rows :
        (Taken(i) /\ CheckPanics(i)) =>
            /\ ~loop.returned
            /\ IF loop.fn = "PanicsRELoop"
               THEN IsString(loop.esc) /\ Occurs(<<"Regexp could not be compiled">>, loop.esc.val)
               ELSE loop.esc.type = "runtime.Error"
            /\ SelectSeq(loop.log, LAMBDA e : e.i < i)
                   = RangeFrom(loop.fn, SubSeq(tests.cases, 1, i - 1), 1, loop.wantAll, loop.aborts).log
            /\ Callbacks(i) = <<>>
            /\ \A k \in DOMAIN loop.log : loop.log[k].i <= i

\* A test after the one whose check panics: it is not taken.
C18_Witness ==
    /\ loop.fn = "PanicsRELoop" /\ Len(tests.cases) = 2
    /\ CheckPanics(1) /\ ~Taken(2)

\* C19: if the mismatch callback aborts, the loop stops there: the abort
\* leaves the loop, and the callback's invocation is the last thing done (no
\* later test is taken or run and no later callback invoked).
C19_AbortStopsLoop ==
    loop.aborts =>
        \A k \in DOMAIN loop.log :
            loop.log[k].ev \in MismatchFuncs =>
                /\ ~loop.returned
                /\ loop.esc = FatalAbort
                /\ k = Len(loop.log)

C19_Witness ==
    /\ loop.fn = "PanicsStrLoop" /\ loop.aborts /\ Len(tests.cases) = 2
    /\ Len(Callbacks(1)) = 1 /\ Callbacks(1)[1].ev = "notContainsFunc"
    /\ ~Taken(2)

Alone(log, i) ==
    LET own == SelectSeq(log, LAMBDA e : e.i = i)
    IN  [k \in DOMAIN own |-> [own[k] EXCEPT !.i = 1]]

Mismatches == SelectSeq(loop.log, LAMBDA e : e.ev \in MismatchFuncs)

\* The expectation as a reader of the message finds it: the string itself in
\* PanicsStrLoop and PanicsRELoop, the value in Go syntax in PanicsValLoop.
Shown(fn, want) == IF fn = "PanicsValLoop" THEN GoSyntax(want) ELSE want.val

\* msg holds a, then b, then c, one after the other without overlap
InOrder(msg, a, b, c) ==
    \E i, j, l \in 1..(Len(msg) + 1) :
        /\ i + Len(a) <= j /\ j + Len(b) <= l /\ l + Len(c) <= Len(msg) + 1
        /\ SubSeq(msg, i, i + Len(a) - 1) = a
        /\ SubSeq(msg, j, j + Len(b) - 1) = b
        /\ SubSeq(msg, l, l + Len(c) - 1) = c

\* C23: every invocation of a callback made by an Error factory makes exactly
\* one call of t.Errorf and none of t.Fatalf, every invocation of a callback
\* made by a Fatal factory exactly one call of t.Fatalf and none of t.Errorf
\* (the calls on t are, one for one and in order, the invocations of the
\* callback); the message holds the expectation, the panic value and the
\* test's name.
C23_FactoryReports ==
    loop.fn \in CheckingLoops =>
        /\ Len(loop.sink) = Len(Mismatches)
        /\ \A k \in DOMAIN Mismatches :
               /\ k \in DOMAIN loop.sink
               /\ loop.sink[k].method = (IF loop.factory = "Error" THEN "Errorf" ELSE "Fatalf")
               /\ InOrder(loop.sink[k].msg, Shown(loop.fn, Mismatches[k].want),
                          GoSyntax(Mismatches[k].pVal), <<Mismatches[k].name>>)

\* Two reports through the Error factory's callback in PanicsRELoop.
C23_Witness ==
    /\ loop.fn = "PanicsRELoop" /\ loop.factory = "Error"
    /\ Len(loop.sink) = 2
    /\ loop.sink[1].method = "Errorf" /\ loop.sink[2].method = "Errorf"
    /\ tests.cases[1].name # tests.cases[2].name

\* C24 as stated: when f completes normally, PanicsStr, PanicsRE (with a valid
\* pattern) and PanicsVal return (false, false, nil) for every expectation,
\* the empty substring, the empty pattern and any wantVal included.
C24_AsStated ==
    (/\ ~f.panics
     /\ cur.fn \in {"PanicsStr", "PanicsRE", "PanicsVal"}
     /\ (cur.fn = "PanicsRE" => ~CompileFails(cur.want.val))) =>
        /\ cur.out.returned
        /\ ~cur.out.flag
        /\ ~cur.out.content
        /\ cur.out.pVal = NilVal

\* C25: the expectation passed to notContainsFunc, notMatchesFunc and
\* notEqualsFunc is the one the check used: it is the shared one when that is
\* non-nil and the test's own otherwise, the value passed with it does not
\* meet it, and a test that panicked and was not reported meets it.
C25_PassedIsUsed ==
    loop.fn \in CheckingLoops =>
        /\ \A k \in DOMAIN Mismatches :
               LET e == Mismatches[k]
               IN  /\ e.want = (IF loop.wantAll.ptr THEN loop.wantAll.val
                                ELSE tests.cases[e.i].want)
                   /\ ~Meets(loop.fn, e.pVal, e.want)
        /\ \A i \in Rows :
               LET p == Recover(tests.cases[i].F)
               IN  (Executed(i) /\ Callbacks(i) = <<>> /\ HasResult(loop.fn, p, RealWant(i))) =>
                       Meets(loop.fn, p, RealWant(i))

\* The panic value equals the test's own WantVal and differs from the shared
\* one: the callback is given the shared one.
C25_Witness ==
    /\ loop.fn = "PanicsValLoop" /\ loop.wantAll.ptr /\ Len(tests.cases) = 1
    /\ tests.cases[1].F.arg = StrVal(<<"p">>) /\ tests.cases[1].want = StrVal(<<"p">>)
    /\ loop.wantAll.val # tests.cases[1].want
    /\ Len(Callbacks(1)) = 1 /\ Callbacks(1)[1].want = loop.wantAll.val

\* C26: in every loop a callback for test i is invoked after the one
\* execution of test i's function is over and before the function of any
\* later test is run; the functions are run one at a time, each once at most.
C26_CallbackBetween ==
    loop.fn # "none" =>
        /\ \A k \in DOMAIN loop.log :
               loop.log[k].ev \in CallbackEvents =>
                   /\ \E j \in 1..(k - 1) : loop.log[j].ev = "F" /\ loop.log[j].i = loop.log[k].i
                   /\ \A m \in DOMAIN loop.log :
                          loop.log[m].ev = "F" =>
                              /\ loop.log[m].i <= loop.log[k].i => m < k
                              /\ loop.log[m].i > loop.log[k].i => m > k
        /\ \A j, m \in DOMAIN loop.log :
               (loop.log[j].ev = "F" /\ loop.log[m].ev = "F" /\ loop.log[j].i = loop.log[m].i)
                   => j = m

\* A callback for the first test, then the second test run and reported.
C26_Witness ==
    /\ loop.fn = "PanicsStrLoop" /\ ~loop.aborts /\ Len(tests.cases) = 2
    /\ Len(Callbacks(1)) = 1 /\ Callbacks(1)[1].ev = "notContainsFunc"
    /\ Executed(2)
    /\ Len(Callbacks(2)) = 1 /\ Callbacks(2)[1].ev = "notPanicFunc"

\* C27: PanicsRE checks the expression before it runs anything: with an
\* invalid wantRE it leaves by a panic and f is not executed; in PanicsRELoop
\* the function of a test whose expression is invalid is not executed and
\* neither notPanicFunc nor notMatchesFunc is invoked for it, whether the
\* function would have panicked or not.
C27_ValidatesFirst ==
    /\ (cur.fn = "PanicsRE" /\ CompileFails(cur.want.val)) =>
           (~cur.out.returned /\ cur.out.execs = 0)
    /\ loop.fn = "PanicsRELoop" =>
           \A i \in Rows :
               CompileFails(RealWant(i).val) => (~Executed(i) /\ Callbacks(i) = <<>>)

\* The second test's own expression is invalid and its function would return
\* normally; the first test was run.
C27_Witness ==
    /\ loop.fn = "PanicsRELoop" /\ ~loop.wantAll.ptr /\ Len(tests.cases) = 2
    /\ Executed(1)
    /\ tests.cases[2].want = StrVal(<<"(">>) /\ ~tests.cases[2].F.panics
    /\ Taken(2) /\ ~Executed(2) /\ ~loop.returned

\* C28: with an invalid wantREAll, PanicsRELoop runs no test's function and
\* invokes no callback; on a non-empty table it panics when it takes the first
\* test, with the compilation message, and on an empty table it returns
\* normally (the expression is compiled test by test).
C28_BadSharedRE ==
    (loop.fn = "PanicsRELoop" /\ loop.wantAll.ptr /\ CompileFails(loop.wantAll.val.val)) =>
        /\ \A k \in DOMAIN loop.log : loop.log[k].ev = "range"
        /\ loop.sink = <<>>
        /\ IF tests.cases = <<>>
           THEN loop.returned /\ loop.log = <<>>
           ELSE /\ ~loop.returned
                /\ IsString(loop.esc)
                /\ Occurs(<<"Regexp could not be compiled">>, loop.esc.val)
                /\ loop.log = <<Event("range", 1, tests.cases[1].name, NilVal, NilVal)>>

\* Two tests with valid expressions of their own, the first of which would
\* return normally, under an invalid shared expression.
C28_Witness ==
    /\ loop.fn = "PanicsRELoop" /\ loop.wantAll = Override(StrVal(<<"(">>))
    /\ Len(tests.cases) = 2
    /\ ~tests.cases[1].F.panics
    /\ tests.cases[1].want = StrVal(<<"p">>) /\ tests.cases[2].want = StrVal(<<"p">>)
    /\ ~loop.returned /\ Len(loop.log) = 1

\* The same call on an empty table.
C28_EmptyTable ==
    /\ loop.fn = "PanicsRELoop" /\ loop.wantAll = Override(StrVal(<<"(">>))
    /\ tests.cases = <<>> /\ loop.returned

\* C29: PanicsVal returns (it does not panic) whenever f completes normally,
\* whatever wantVal is, a slice included, and whenever the panic value and
\* wantVal are of different dynamic types; so PanicsValLoop reports a test
\* whose function completes normally through notPanicFunc, and nothing else,
\* even if the expectation that applies is of an uncomparable type.
C29_PanicsValReturns ==
    /\ (cur.fn = "PanicsVal" /\ (~f.panics \/ f.arg.type # cur.want.type)) =>
           cur.out.returned
    /\ loop.fn = "PanicsValLoop" =>
           \A i \in Rows :
               (Taken(i) /\ ~tests.cases[i].F.panics) =>
                   /\ Executed(i)
                   /\ Callbacks(i)
                          = <<Event("notPanicFunc", i, tests.cases[i].name, NilVal, NilVal)>>

\* A shared WantVal that is a slice, and a test that does not panic.
C29_Witness ==
    /\ loop.fn = "PanicsValLoop" /\ loop.wantAll.ptr /\ ~Comparable(loop.wantAll.val)
    /\ Len(tests.cases) = 1 /\ ~tests.cases[1].F.panics
    /\ Len(Callbacks(1)) = 1 /\ Callbacks(1)[1].ev = "notPanicFunc"
    /\ loop.returned

\* The call at hand is one with a valid pattern (PanicsRE) and comparable
\* values (PanicsVal).
WellFormed ==
    /\ cur.fn = "PanicsRE" => ~CompileFails(cur.want.val)
    /\ cur.fn = "PanicsVal" => (Comparable(cur.want) /\ Comparable(f.arg))

\* C30 as stated: on the same f, Panics, PanicsGet, PanicsStr, PanicsRE (valid
\* pattern) and PanicsVal (comparable values) all return, with the same
\* didPanic, and those that return a panic value with the same pVal, whatever
\* the expectations are.
C30_AsStated ==
    (cur.fn \in {"Panics", "PanicsGet", "PanicsStr", "PanicsRE", "PanicsVal"} /\ WellFormed) =>
        /\ cur.out.returned
        /\ (prev.fn \in {"Panics", "PanicsGet", "PanicsStr", "PanicsRE", "PanicsVal"}
            /\ prev.returned) =>
               /\ cur.out.flag = prev.flag
               /\ (cur.fn # "Panics" /\ prev.fn # "Panics") => cur.out.pVal = prev.pVal

====
